---- MODULE Spec2Model ----
(***************************************************************************)
(* Frame processing pipeline of the thermal camera display (display.cpp): *)
(* scratch buffer management, format conversion, the per-frame            *)
(* orchestrator and the acquisition/render handoff.                       *)
(***************************************************************************)
EXTENDS Integers, Sequences, FiniteSets, TLC

---------------------------------------------------------------------------
(* Bounds of the model *)

\* heap blocks malloc can hand out in one run
MaxBlocks == 6
\* largest image width / height drawn as input
MaxDim == 2
\* frames the camera delivers in one run
MaxFrames == 3
\* the frame budget of the render loop is stream_time * fps
StreamTime == 1
Fps == 2
\* most pixels in a plane drawn for the pixel-level functions
MaxPix == 3
\* latest second gettimeofday reports
MaxSec == 3

---------------------------------------------------------------------------
(* Heap and scratch buffers *)

\* the null pointer value of image_tmp_frame1 / image_tmp_frame2
NULL == 0

Blocks == 1..MaxBlocks
Dims == 1..MaxDim

VARIABLES
  image_tmp_frame1,   \* scratch buffer A: NULL or a heap block
  image_tmp_frame2,   \* scratch buffer B: NULL or a heap block
  heap,               \* per block: state, size in bytes, number of free() calls
  last_call,          \* the last buffer-manager call and the state it started from
  image_info,         \* stream_frame_info->image_info (FrameInfo_t)
  temp_info,          \* stream_frame_info->temp_info: width, height
  temp_frame,         \* stream_frame_info->temp_frame: NULL or a buffer
  content,            \* what each frame buffer holds: data format, frame number
  frame_state,        \* the last run of the frame processing: path, stages, size
  human_segmentation_enabled,
  shown,              \* what the presentation sink was last handed
  sink_open,          \* the presentation window exists
  threadarg,          \* argument of display_function: NULL or the stream info
  render_pc,          \* position of the render thread in display_function
  i,                  \* display_function's loop counter
  is_streaming,       \* the "still streaming" flag
  image_sem,          \* "frame ready" semaphore
  image_done_sem,     \* "frame consumed" semaphore
  acq_pc,             \* position of the acquisition thread
  acquired,           \* frames filled by the acquisition thread
  processed,          \* frame numbers display_one_frame ran on, in order
  plane_in,           \* pixel level: the arguments of the function called
  plane_out,          \* pixel level: what the function wrote
  last_time,          \* display_one_frame's static timestamp of the previous call
  rate,               \* the last frame-rate computation
  camera              \* the SimpleCameraHandle_t and what hangs off it

memvars == <<image_tmp_frame1, image_tmp_frame2, heap, last_call>>
infovars == <<image_info, temp_info, temp_frame>>
framevars == <<content, frame_state, human_segmentation_enabled, shown, sink_open>>
renderctl == <<threadarg, render_pc, i>>
syncvars == <<is_streaming, image_sem, image_done_sem>>
acqvars == <<acq_pc, acquired>>
pixvars == <<plane_in, plane_out>>
hostvars == <<last_time, rate, camera>>

vars == <<image_tmp_frame1, image_tmp_frame2, heap, last_call, image_info, temp_info,
          temp_frame, content, frame_state, human_segmentation_enabled, shown,
          sink_open, threadarg, render_pc, i, is_streaming, image_sem,
          image_done_sem, acq_pc, acquired, processed, pixvars,
          hostvars>>

EmptyHeap == [b \in Blocks |-> [st |-> "unused", size |-> 0, nfree |-> 0]]

Used(h) == {b \in Blocks : h[b].st # "unused"}
Live(h) == {b \in Blocks : h[b].st = "live"}

\* total number of free() calls made on the blocks of h
RECURSIVE SumFree(_, _)
SumFree(h, S) ==
  IF S = {} THEN 0
  ELSE LET b == CHOOSE x \in S : TRUE IN h[b].nfree + SumFree(h, S \ {b})

\* malloc(size): a fresh block when it succeeds, NULL when it fails
malloc(h, size, ok) ==
  IF ok /\ Used(h) # Blocks
  THEN LET b == CHOOSE x \in Blocks \ Used(h) : \A y \in Blocks \ Used(h) : x <= y
       IN [p |-> b, heap |-> [h EXCEPT ![b] = [st |-> "live", size |-> size, nfree |-> 0]]]
  ELSE [p |-> NULL, heap |-> h]

\* free(p): p is a block; a second free of the same block is counted
free(h, p) ==
  [h EXCEPT ![p] = [st |-> "freed", size |-> h[p].size, nfree |-> h[p].nfree + 1]]

\* display_init with the release of buffer A on the failure path left out
display_init_leak(m, pixel_size, ok1, ok2) ==
  LET a1 == IF m.f1 = NULL THEN malloc(m.heap, pixel_size * 3, ok1)
            ELSE [p |-> m.f1, heap |-> m.heap]
  IN IF a1.p = NULL
     THEN [f1 |-> NULL, f2 |-> m.f2, heap |-> a1.heap]
     ELSE LET a2 == IF m.f2 = NULL THEN malloc(a1.heap, pixel_size * 3, ok2)
                    ELSE [p |-> m.f2, heap |-> a1.heap]
          IN [f1 |-> a1.p, f2 |-> a2.p, heap |-> a2.heap]

\* display_init allocating without looking at the pointers
display_init_always(m, pixel_size, ok1, ok2) ==
  LET a1 == malloc(m.heap, pixel_size * 3, ok1)
  IN IF a1.p = NULL
     THEN [f1 |-> NULL, f2 |-> m.f2, heap |-> a1.heap]
     ELSE LET a2 == malloc(a1.heap, pixel_size * 3, ok2)
          IN IF a2.p = NULL
             THEN [f1 |-> NULL, f2 |-> NULL, heap |-> free(a2.heap, a1.p)]
             ELSE [f1 |-> a1.p, f2 |-> a2.p, heap |-> a2.heap]

\* display_init sizing the buffers for 2 bytes per pixel
display_init_small(m, pixel_size, ok1, ok2) ==
  LET a1 == IF m.f1 = NULL THEN malloc(m.heap, pixel_size * 2, ok1)
            ELSE [p |-> m.f1, heap |-> m.heap]
  IN IF a1.p = NULL
     THEN [f1 |-> NULL, f2 |-> m.f2, heap |-> a1.heap]
     ELSE LET a2 == IF m.f2 = NULL THEN malloc(a1.heap, pixel_size * 2, ok2)
                    ELSE [p |-> m.f2, heap |-> a1.heap]
          IN IF a2.p = NULL
             THEN [f1 |-> NULL, f2 |-> NULL, heap |-> free(a2.heap, a1.p)]
             ELSE [f1 |-> a1.p, f2 |-> a2.p, heap |-> a2.heap]

\* display_init: m = [f1, f2, heap] before the call, the result after it
display_init(m, pixel_size, ok1, ok2) ==
  LET a1 == IF m.f1 = NULL THEN malloc(m.heap, pixel_size * 3, ok1)
            ELSE [p |-> m.f1, heap |-> m.heap]
  IN IF a1.p = NULL
     THEN [f1 |-> NULL, f2 |-> m.f2, heap |-> a1.heap]
     ELSE LET a2 == IF m.f2 = NULL THEN malloc(a1.heap, pixel_size * 3, ok2)
                    ELSE [p |-> m.f2, heap |-> a1.heap]
          IN IF a2.p = NULL
             THEN [f1 |-> NULL, f2 |-> NULL, heap |-> free(a2.heap, a1.p)]
             ELSE [f1 |-> a1.p, f2 |-> a2.p, heap |-> a2.heap]

\* display_release that frees the buffers and keeps the stale pointers
display_release_stale(m) ==
  LET h1 == IF m.f1 # NULL THEN free(m.heap, m.f1) ELSE m.heap
      h2 == IF m.f2 # NULL THEN free(h1, m.f2) ELSE h1
  IN [f1 |-> m.f1, f2 |-> m.f2, heap |-> h2]

\* display_release that releases buffer A only
display_release_first(m) ==
  LET h1 == IF m.f1 # NULL THEN free(m.heap, m.f1) ELSE m.heap
  IN [f1 |-> NULL, f2 |-> m.f2, heap |-> h1]

\* display_release
display_release(m) ==
  LET h1 == IF m.f1 # NULL THEN free(m.heap, m.f1) ELSE m.heap
      h2 == IF m.f2 # NULL THEN free(h1, m.f2) ELSE h1
  IN [f1 |-> NULL, f2 |-> NULL, heap |-> h2]

Mem == [f1 |-> image_tmp_frame1, f2 |-> image_tmp_frame2, heap |-> heap]

SetMem(r) ==
  /\ image_tmp_frame1' = r.f1
  /\ image_tmp_frame2' = r.f2
  /\ heap' = r.heap

CallRecord(op, pixel_size, ok1, ok2) ==
  [op |-> op, pixel_size |-> pixel_size, ok1 |-> ok1, ok2 |-> ok2,
   pre1 |-> image_tmp_frame1, pre2 |-> image_tmp_frame2,
   pre_size1 |-> IF image_tmp_frame1 = NULL THEN 0 ELSE heap[image_tmp_frame1].size,
   pre_size2 |-> IF image_tmp_frame2 = NULL THEN 0 ELSE heap[image_tmp_frame2].size,
   pre_used |-> Cardinality(Used(heap)), pre_frees |-> SumFree(heap, Blocks)]

NoCall ==
  [op |-> "none", pixel_size |-> 0, ok1 |-> TRUE, ok2 |-> TRUE,
   pre1 |-> NULL, pre2 |-> NULL, pre_size1 |-> 0, pre_size2 |-> 0,
   pre_used |-> 0, pre_frees |-> 0]

---------------------------------------------------------------------------
(* Format converter and geometric transforms: each vendor call is a stage *)
\* no pixel-level call made
NoPlane == [op |-> "none"]

\* static struct timeval last_time: zero until the first frame
TimeZero == [tv_sec |-> 0, tv_usec |-> 0]

\* no frame rate computed yet
NoRate == [op |-> "none", elapsed |-> 0, divisor |-> 1, frame |-> 0,
           available |-> FALSE]

\* no camera handle created
NoCamera ==
  [handle |-> "none", device |-> "closed", buffers |-> "unallocated",
   stream |-> "off", stale_access |-> FALSE, frames_read |-> 0,
   call |-> "none", ret |-> 0, fetched |-> FALSE]

\* the frame-rate clock and the camera handle while another part is examined
HostIdle ==
  /\ last_time = TimeZero
  /\ rate = NoRate
  /\ camera = NoCamera

(* [op, src, dst, out, arg, bytes, res]: the buffers it reads and writes,  *)
(* the format of the data it writes, its colour table, its byte count and *)
(* the image resolution it is given                                       *)

InputFormats == {"INPUT_FMT_Y14", "INPUT_FMT_Y16", "INPUT_FMT_YUV422"}
OutputFormats == {"OUTPUT_FMT_Y14", "OUTPUT_FMT_YUV444", "OUTPUT_FMT_YUV422",
                  "OUTPUT_FMT_RGB888", "OUTPUT_FMT_BGR888"}
EnhanceStates == {"IMG_ENHANCE_OFF", "IMG_ENHANCE_ON"}
PseudoColorStates == {"PSEUDO_COLOR_OFF", "PSEUDO_COLOR_ON"}
MirrorFlipStates == {"STATUS_NO_MIRROR_FLIP", "STATUS_ONLY_MIRROR",
                     "STATUS_ONLY_FLIP", "STATUS_MIRROR_FLIP"}
RotateSides == {"NO_ROTATE", "LEFT_90D", "RIGHT_90D", "ROTATE_180D"}

Stage(op, src, dst, out, arg) ==
  [op |-> op, src |-> src, dst |-> dst, out |-> out, arg |-> arg,
   bytes |-> -1, res |-> <<0, 0>>]

\* a stage given a byte count, a stage given an image resolution
Sized(st, bytes) == [st EXCEPT !.bytes = bytes]
WithRes(st, width, height) == [st EXCEPT !.res = <<width, height>>]

\* the buffers a list of stages writes
Written(stages) == {stages[k].dst : k \in 1..Len(stages)}

\* the content of the buffers after the stages ran, in order
RECURSIVE ApplyStages(_, _)
ApplyStages(c, stages) ==
  IF stages = <<>> THEN c
  ELSE LET st == Head(stages)
           new == [fmt |-> IF st.out = "same" THEN c[st.src].fmt ELSE st.out,
                   frame |-> c[st.src].frame]
       IN ApplyStages([c EXCEPT ![st.dst] = new], Tail(stages))

enhance_image_frame(src, frameinfo, dst) ==
  IF frameinfo.img_enhance_status = "IMG_ENHANCE_ON"
  THEN <<Stage("enhance", src, dst, "Y14", "")>>
  ELSE <<Stage("memcpy", src, dst, "same", "")>>

\* color_image_frame with one colour table on all three paths
color_image_frame_one_table(src, frameinfo, dst) ==
  LET pix_num == frameinfo.width * frameinfo.height
  IN CASE frameinfo.output_format = "OUTPUT_FMT_YUV422" ->
            [byte_size |-> pix_num * 2,
             stages |-> <<Stage("y14_map_to_yuyv_pseudocolor", src, dst, "YUV422",
                                "IRPROC_COLOR_MODE_3")>>]
       [] frameinfo.output_format = "OUTPUT_FMT_RGB888" ->
            [byte_size |-> pix_num * 3,
             stages |-> <<Stage("y14_map_to_yuyv_pseudocolor", src, "image_tmp_frame2",
                                "YUV422", "IRPROC_COLOR_MODE_3"),
                          Stage("yuv422_to_rgb", "image_tmp_frame2", dst, "RGB888", "")>>]
       [] OTHER ->
            [byte_size |-> pix_num * 3,
             stages |-> <<Stage("y14_map_to_yuyv_pseudocolor", src, "image_tmp_frame2",
                                "YUV422", "IRPROC_COLOR_MODE_3"),
                          Stage("yuv422_to_rgb", "image_tmp_frame2", "image_tmp_frame1",
                                "RGB888", ""),
                          Stage("rgb_to_bgr", "image_tmp_frame1", dst, "BGR888", "")>>]

color_image_frame(src, frameinfo, dst) ==
  LET pix_num == frameinfo.width * frameinfo.height
  IN CASE frameinfo.output_format = "OUTPUT_FMT_YUV422" ->
            [byte_size |-> pix_num * 2,
             stages |-> <<Stage("y14_map_to_yuyv_pseudocolor", src, dst, "YUV422",
                                "IRPROC_COLOR_MODE_3")>>]
       [] frameinfo.output_format = "OUTPUT_FMT_RGB888" ->
            [byte_size |-> pix_num * 3,
             stages |-> <<Stage("y14_map_to_yuyv_pseudocolor", src, "image_tmp_frame2",
                                "YUV422", "IRPROC_COLOR_MODE_3"),
                          Stage("yuv422_to_rgb", "image_tmp_frame2", dst, "RGB888", "")>>]
       [] OTHER ->
            [byte_size |-> pix_num * 3,
             stages |-> <<Stage("y14_map_to_yuyv_pseudocolor", src, "image_tmp_frame2",
                                "YUV422", "IRPROC_COLOR_MODE_6"),
                          Stage("yuv422_to_rgb", "image_tmp_frame2", "image_tmp_frame1",
                                "RGB888", ""),
                          Stage("rgb_to_bgr", "image_tmp_frame1", dst, "BGR888", "")>>]

\* the switch of display_image_process for Y14 / Y16 input without pseudo colour
ConvertY14(frameinfo, pix_num) ==
  CASE frameinfo.output_format = "OUTPUT_FMT_Y14" ->
         [byte_size |-> pix_num * 2,
          stages |-> <<Sized(Stage("memcpy", "image_tmp_frame1", "image_tmp_frame2",
                                   "same", ""), pix_num * 2)>>]
    [] frameinfo.output_format = "OUTPUT_FMT_YUV444" ->
         [byte_size |-> pix_num * 3,
          stages |-> <<Stage("y14_to_yuv444", "image_tmp_frame1", "image_tmp_frame2",
                             "YUV444", "")>>]
    [] frameinfo.output_format = "OUTPUT_FMT_YUV422" ->
         [byte_size |-> pix_num * 2,
          stages |-> <<Stage("y14_to_yuv444", "image_tmp_frame1", "image_tmp_frame2",
                             "YUV444", ""),
                       Sized(Stage("memcpy", "image_tmp_frame2", "image_tmp_frame1",
                                   "same", ""), pix_num * 2),
                       Stage("yuv444_to_yuv422", "image_tmp_frame1", "image_tmp_frame2",
                             "YUV422", "")>>]
    [] frameinfo.output_format = "OUTPUT_FMT_RGB888" ->
         [byte_size |-> pix_num * 3,
          stages |-> <<Stage("y14_to_rgb", "image_tmp_frame1", "image_tmp_frame2",
                             "RGB888", "")>>]
    [] OTHER ->
         [byte_size |-> pix_num * 3,
          stages |-> <<Stage("y14_to_rgb", "image_tmp_frame1", "image_tmp_frame2",
                             "RGB888", ""),
                       Stage("rgb_to_bgr", "image_tmp_frame2", "image_tmp_frame2",
                             "BGR888", "")>>]

\* the switch of display_image_process for packed YUV422 input, with the
\* frame copied for the outputs that have no conversion
ConvertYUV422Copying(image_frame, frameinfo, pix_num) ==
  CASE frameinfo.output_format \in {"OUTPUT_FMT_Y14", "OUTPUT_FMT_YUV444",
                                    "OUTPUT_FMT_YUV422"} ->
         [byte_size |-> pix_num * 2, err |-> FALSE,
          stages |-> <<Sized(Stage("memcpy", image_frame, "image_tmp_frame2",
                                   "same", ""), pix_num * 2)>>]
    [] frameinfo.output_format = "OUTPUT_FMT_RGB888" ->
         [byte_size |-> pix_num * 3, err |-> FALSE,
          stages |-> <<Stage("yuv422_to_rgb", image_frame, "image_tmp_frame2",
                             "RGB888", "")>>]
    [] OTHER ->
         [byte_size |-> pix_num * 3, err |-> FALSE,
          stages |-> <<Stage("yuv422_to_rgb", image_frame, "image_tmp_frame1",
                             "RGB888", ""),
                       Stage("rgb_to_bgr", "image_tmp_frame1", "image_tmp_frame2",
                             "BGR888", "")>>]

\* the switch of display_image_process for packed YUV422 input
ConvertYUV422(image_frame, frameinfo, pix_num) ==
  CASE frameinfo.output_format \in {"OUTPUT_FMT_Y14", "OUTPUT_FMT_YUV444"} ->
         [byte_size |-> 0, err |-> TRUE, stages |-> <<>>]
    [] frameinfo.output_format = "OUTPUT_FMT_YUV422" ->
         [byte_size |-> pix_num * 2, err |-> FALSE,
          stages |-> <<Sized(Stage("memcpy", image_frame, "image_tmp_frame2",
                                   "same", ""), pix_num * 2)>>]
    [] frameinfo.output_format = "OUTPUT_FMT_RGB888" ->
         [byte_size |-> pix_num * 3, err |-> FALSE,
          stages |-> <<Stage("yuv422_to_rgb", image_frame, "image_tmp_frame2",
                             "RGB888", "")>>]
    [] OTHER ->
         [byte_size |-> pix_num * 3, err |-> FALSE,
          stages |-> <<Stage("yuv422_to_rgb", image_frame, "image_tmp_frame1",
                             "RGB888", ""),
                       Stage("rgb_to_bgr", "image_tmp_frame1", "image_tmp_frame2",
                             "BGR888", "")>>]

\* display_image_process: the new frameinfo->byte_size, whether a conversion
\* error was printed, and the stages run
display_image_process(image_frame, pix_num, frameinfo) ==
  IF frameinfo.input_format \in {"INPUT_FMT_Y14", "INPUT_FMT_Y16"}
  THEN LET pre == (IF frameinfo.input_format = "INPUT_FMT_Y16"
                   THEN <<Stage("y16_to_y14", image_frame, image_frame, "Y14", "")>>
                   ELSE <<>>)
                  \o enhance_image_frame(image_frame, frameinfo, "image_tmp_frame1")
           r == IF frameinfo.pseudo_color_status = "PSEUDO_COLOR_ON"
                THEN color_image_frame("image_tmp_frame1", frameinfo, "image_tmp_frame2")
                ELSE ConvertY14(frameinfo, pix_num)
       IN [byte_size |-> r.byte_size, err |-> FALSE, stages |-> pre \o r.stages]
  ELSE IF frameinfo.input_format = "INPUT_FMT_YUV422"
  THEN ConvertYUV422(image_frame, frameinfo, pix_num)
  ELSE [byte_size |-> frameinfo.byte_size, err |-> FALSE, stages |-> <<>>]

\* memcpy(frame, image_tmp_frame1, frame_info->byte_size)
CopyBack(frame_info, frame) ==
  Sized(Stage("memcpy", "image_tmp_frame1", frame, "same", ""), frame_info.byte_size)

\* rotate_demo handing the rotation the width and height exchanged
rotate_demo_swapped(frame_info, frame, rotate_side) ==
  CASE rotate_side = "LEFT_90D" ->
         <<WithRes(Stage("rotate_left_90", frame, "image_tmp_frame1", "same", ""),
                   frame_info.height, frame_info.width), CopyBack(frame_info, frame)>>
    [] rotate_side = "RIGHT_90D" ->
         <<WithRes(Stage("rotate_right_90", frame, "image_tmp_frame1", "same", ""),
                   frame_info.height, frame_info.width), CopyBack(frame_info, frame)>>
    [] rotate_side = "ROTATE_180D" ->
         <<WithRes(Stage("rotate_180", frame, "image_tmp_frame1", "same", ""),
                   frame_info.height, frame_info.width), CopyBack(frame_info, frame)>>
    [] OTHER -> <<>>

rotate_demo(frame_info, frame, rotate_side) ==
  CASE rotate_side = "LEFT_90D" ->
         <<WithRes(Stage("rotate_left_90", frame, "image_tmp_frame1", "same", ""),
                   frame_info.width, frame_info.height), CopyBack(frame_info, frame)>>
    [] rotate_side = "RIGHT_90D" ->
         <<WithRes(Stage("rotate_right_90", frame, "image_tmp_frame1", "same", ""),
                   frame_info.width, frame_info.height), CopyBack(frame_info, frame)>>
    [] rotate_side = "ROTATE_180D" ->
         <<WithRes(Stage("rotate_180", frame, "image_tmp_frame1", "same", ""),
                   frame_info.width, frame_info.height), CopyBack(frame_info, frame)>>
    [] OTHER -> <<>>

\* mirror_flip_demo with the flip run on the frame instead of the mirrored copy
mirror_flip_demo_apart(frame_info, frame, mirror_flip_status) ==
  CASE mirror_flip_status = "STATUS_ONLY_MIRROR" ->
         <<Stage("mirror", frame, "image_tmp_frame1", "same", ""),
           CopyBack(frame_info, frame)>>
    [] mirror_flip_status = "STATUS_ONLY_FLIP" ->
         <<Stage("flip", frame, "image_tmp_frame1", "same", ""),
           CopyBack(frame_info, frame)>>
    [] mirror_flip_status = "STATUS_MIRROR_FLIP" ->
         <<Stage("mirror", frame, "image_tmp_frame1", "same", ""),
           Stage("flip", frame, "image_tmp_frame1", "same", "")>>
    [] OTHER -> <<>>

mirror_flip_demo(frame_info, frame, mirror_flip_status) ==
  CASE mirror_flip_status = "STATUS_ONLY_MIRROR" ->
         <<Stage("mirror", frame, "image_tmp_frame1", "same", ""),
           CopyBack(frame_info, frame)>>
    [] mirror_flip_status = "STATUS_ONLY_FLIP" ->
         <<Stage("flip", frame, "image_tmp_frame1", "same", ""),
           CopyBack(frame_info, frame)>>
    [] mirror_flip_status = "STATUS_MIRROR_FLIP" ->
         <<Stage("mirror", frame, "image_tmp_frame1", "same", ""),
           Stage("flip", "image_tmp_frame1", frame, "same", "")>>
    [] OTHER -> <<>>

\* segment_human_by_real_temperature as one stage; nothing is written when
\* an argument is NULL or one of its three allocations fails
segment_human_by_real_temperature(y14_data, width, height, dst_frame, alloc_ok) ==
  IF y14_data = NULL \/ dst_frame = NULL \/ ~alloc_ok
  THEN <<>>
  ELSE <<WithRes(Stage("segment_human_by_real_temperature", "temp_frame",
                       "image_tmp_frame2", "BGR888", "IRPROC_COLOR_MODE_6"),
                 width, height)>>

---------------------------------------------------------------------------
(* Pipeline orchestrator *)

\* the segmentation path chosen by the toggle alone
SegmentationSelectedByToggle(seg_enabled, tframe) == seg_enabled # 0

\* if (human_segmentation_enabled && stream_frame_info->temp_frame != NULL)
SegmentationSelected(seg_enabled, tframe) == seg_enabled # 0 /\ tframe # NULL

\* display_one_frame giving the sink the image size on the segmentation path
display_one_frame_image_size(info, tinfo, tframe, seg_enabled, dst, alloc_ok) ==
  LET pix_num == info.width * info.height
  IN IF SegmentationSelected(seg_enabled, tframe)
     THEN [mode |-> "segmentation", byte_size |-> info.byte_size, err |-> FALSE,
           stages |-> segment_human_by_real_temperature(tframe, tinfo.width,
                                                        tinfo.height, dst, alloc_ok),
           width |-> info.width, height |-> info.height]
     ELSE LET c == display_image_process("image_frame", pix_num, info)
              info2 == [info EXCEPT !.byte_size = c.byte_size]
              swap == info.rotate_side \in {"LEFT_90D", "RIGHT_90D"}
          IN [mode |-> "normal", byte_size |-> c.byte_size, err |-> c.err,
              stages |-> c.stages
                         \o mirror_flip_demo(info2, "image_tmp_frame2",
                                             info.mirror_flip_status)
                         \o rotate_demo(info2, "image_tmp_frame2", info.rotate_side),
              width |-> IF swap THEN info.height ELSE info.width,
              height |-> IF swap THEN info.width ELSE info.height]

\* display_one_frame up to the hand-over to the presentation sink: the path
\* taken, the new image_info.byte_size, the stages run and the width / height
\* given to the sink
display_one_frame(info, tinfo, tframe, seg_enabled, dst, alloc_ok) ==
  LET pix_num == info.width * info.height
  IN IF SegmentationSelected(seg_enabled, tframe)
     THEN [mode |-> "segmentation", byte_size |-> info.byte_size, err |-> FALSE,
           stages |-> segment_human_by_real_temperature(tframe, tinfo.width,
                                                        tinfo.height, dst, alloc_ok),
           width |-> tinfo.width, height |-> tinfo.height]
     ELSE LET c == display_image_process("image_frame", pix_num, info)
              info2 == [info EXCEPT !.byte_size = c.byte_size]
              swap == info.rotate_side \in {"LEFT_90D", "RIGHT_90D"}
          IN [mode |-> "normal", byte_size |-> c.byte_size, err |-> c.err,
              stages |-> c.stages
                         \o mirror_flip_demo(info2, "image_tmp_frame2",
                                             info.mirror_flip_status)
                         \o rotate_demo(info2, "image_tmp_frame2", info.rotate_side),
              width |-> IF swap THEN info.height ELSE info.width,
              height |-> IF swap THEN info.width ELSE info.height]

NoFrame ==
  [mode |-> "none", byte_size |-> 0, err |-> FALSE, stages |-> <<>>,
   width |-> 0, height |-> 0]

NotShown ==
  [buf |-> NULL, width |-> 0, height |-> 0, byte_size |-> 0, mode |-> "none",
   err |-> FALSE, frame |-> 0]

FrameInfo(w, h, inf, outf, enh, pc, mf, rot) ==
  [width |-> w, height |-> h, input_format |-> inf, output_format |-> outf,
   img_enhance_status |-> enh, pseudo_color_status |-> pc,
   mirror_flip_status |-> mf, rotate_side |-> rot, byte_size |-> 0]

\* every FrameInfo_t within the bounds
FrameInfos ==
  {FrameInfo(w, h, inf, outf, enh, pc, mf, rot) :
     w \in Dims, h \in Dims, inf \in InputFormats, outf \in OutputFormats,
     enh \in EnhanceStates, pc \in PseudoColorStates,
     mf \in {"STATUS_NO_MIRROR_FLIP"}, rot \in {"NO_ROTATE"}}

\* the camera configurations the two threads are run with
StreamConfigs ==
  {FrameInfo(MaxDim, 1, inf, outf, "IMG_ENHANCE_OFF", "PSEUDO_COLOR_OFF",
             "STATUS_NO_MIRROR_FLIP", rot) :
     inf \in {"INPUT_FMT_Y14", "INPUT_FMT_YUV422"},
     outf \in {"OUTPUT_FMT_Y14", "OUTPUT_FMT_BGR888"},
     rot \in {"NO_ROTATE", "LEFT_90D"}}

InitialContent(inf) ==
  [b \in {"image_frame", "temp_frame", "image_tmp_frame1", "image_tmp_frame2"} |->
     IF b = "image_frame" THEN [fmt |-> inf, frame |-> 0]
     ELSE IF b = "temp_frame" THEN [fmt |-> "INPUT_FMT_Y14", frame |-> 0]
     ELSE [fmt |-> "none", frame |-> 0]]

---------------------------------------------------------------------------
(* Render thread (display_function) and acquisition thread *)

\* initial values of the semaphores (init_pthread_sem)
ImageSemInit == 1
ImageDoneSemInit == 0

Init ==
  /\ image_tmp_frame1 = NULL
  /\ image_tmp_frame2 = NULL
  /\ heap = EmptyHeap
  /\ last_call = NoCall
  /\ image_info \in StreamConfigs
  /\ temp_info = [width |-> image_info.width, height |-> image_info.height]
  /\ temp_frame = 1
  /\ content = InitialContent(image_info.input_format)
  /\ frame_state = NoFrame
  /\ human_segmentation_enabled = 0
  /\ shown = NotShown
  /\ sink_open = FALSE
  /\ threadarg \in {NULL, 1}
  /\ render_pc = "start"
  /\ i = 0
  /\ is_streaming = 1
  /\ image_sem = ImageSemInit
  /\ image_done_sem = ImageDoneSemInit
  /\ acq_pc = "check"
  /\ acquired = 0
  /\ processed = <<>>
  /\ plane_in = NoPlane
  /\ plane_out = NoPlane
  /\ HostIdle

Running == render_pc # "crashed"

\* display_function up to the loop: the NULL check and display_init
RenderStart ==
  /\ render_pc = "start"
  /\ IF threadarg = NULL
     THEN /\ render_pc' = "done"
          /\ UNCHANGED memvars
     ELSE \E ok1 \in BOOLEAN, ok2 \in BOOLEAN :
            /\ SetMem(display_init(Mem, image_info.width * image_info.height, ok1, ok2))
            /\ last_call' = CallRecord("init", image_info.width * image_info.height,
                                       ok1, ok2)
            /\ render_pc' = "loop"
  /\ i' = 0
  /\ UNCHANGED <<hostvars, pixvars, infovars, framevars, threadarg, syncvars, acqvars, processed>>

\* while (is_streaming || (i <= stream_time * fps))
RenderLoop ==
  /\ render_pc = "loop"
  /\ render_pc' = IF is_streaming # 0 \/ i <= StreamTime * Fps THEN "wait" ELSE "release"
  /\ UNCHANGED <<hostvars, pixvars, memvars, infovars, framevars, threadarg, i, syncvars, acqvars, processed>>

\* sem_wait(&image_sem)
RenderWait ==
  /\ render_pc = "wait"
  /\ image_sem > 0
  /\ image_sem' = image_sem - 1
  /\ render_pc' = "display"
  /\ UNCHANGED <<hostvars, pixvars, memvars, infovars, framevars, threadarg, i, is_streaming,
                 image_done_sem, acqvars, processed>>

\* display_one_frame: conversion and transforms, or segmentation.  With a
\* scratch buffer unallocated the stages go through a null pointer: the run
\* either dies there or goes on.
RenderDisplay ==
  /\ render_pc = "display"
  /\ \E alloc_ok \in BOOLEAN :
       LET r == display_one_frame(image_info, temp_info, temp_frame,
                                  human_segmentation_enabled, image_tmp_frame2, alloc_ok)
       IN /\ frame_state' = r
          /\ image_info' = [image_info EXCEPT !.byte_size = r.byte_size]
          /\ IF image_tmp_frame1 = NULL \/ image_tmp_frame2 = NULL
             THEN /\ content' = content
                  /\ render_pc' \in {"present", "crashed"}
             ELSE /\ content' = ApplyStages(content, r.stages)
                  /\ render_pc' = "present"
          /\ processed' = Append(processed,
                                 IF r.mode = "segmentation" THEN content["temp_frame"].frame
                                 ELSE content["image_frame"].frame)
  /\ UNCHANGED <<hostvars, pixvars, memvars, temp_info, temp_frame, human_segmentation_enabled, shown,
                 sink_open, threadarg, i, syncvars, acqvars>>

\* display_one_frame: cv::Mat over image_tmp_frame2, imshow, and the key poll
\* that toggles the segmentation mode
RenderPresent ==
  /\ render_pc = "present"
  /\ IF image_tmp_frame2 = NULL
     THEN /\ render_pc' = "crashed"
          /\ UNCHANGED <<shown, sink_open, human_segmentation_enabled>>
     ELSE /\ shown' = [buf |-> image_tmp_frame2, width |-> frame_state.width,
                       height |-> frame_state.height,
                       byte_size |-> image_info.byte_size, mode |-> frame_state.mode,
                       err |-> frame_state.err,
                       frame |-> content["image_tmp_frame2"].frame]
          /\ sink_open' = TRUE
          /\ \E key \in {"none", "s"} :
               human_segmentation_enabled' =
                 IF key = "s" THEN 1 - human_segmentation_enabled
                 ELSE human_segmentation_enabled
          /\ render_pc' = "post"
  /\ UNCHANGED <<hostvars, pixvars, memvars, infovars, content, frame_state, threadarg, i, syncvars,
                 acqvars, processed>>

\* sem_post(&image_done_sem); i++
RenderPost ==
  /\ render_pc = "post"
  /\ image_done_sem' = image_done_sem + 1
  /\ i' = i + 1
  /\ render_pc' = "loop"
  /\ UNCHANGED <<hostvars, pixvars, memvars, infovars, framevars, threadarg, is_streaming, image_sem,
                 acqvars, processed>>

\* the end of display_function with the call of display_release left out
RenderExitNoRelease ==
  /\ render_pc = "release"
  /\ sink_open' = FALSE
  /\ render_pc' = "done"
  /\ UNCHANGED <<hostvars, pixvars, memvars, infovars, content, frame_state, human_segmentation_enabled,
                 shown, threadarg, i, syncvars, acqvars, processed>>

\* the end of display_function: display_release, cv::destroyAllWindows, return
RenderExit ==
  /\ render_pc = "release"
  /\ SetMem(display_release(Mem))
  /\ last_call' = CallRecord("release", 0, TRUE, TRUE)
  /\ sink_open' = FALSE
  /\ render_pc' = "done"
  /\ UNCHANGED <<hostvars, pixvars, infovars, content, frame_state, human_segmentation_enabled, shown,
                 threadarg, i, syncvars, acqvars, processed>>

\* acquisition loop test: go on while the stream is on
AcqCheck ==
  /\ Running
  /\ acq_pc = "check"
  /\ IF is_streaming # 0
     THEN acquired < MaxFrames /\ acq_pc' = "fill"
     ELSE acq_pc' = "exit"
  /\ UNCHANGED <<hostvars, pixvars, memvars, infovars, framevars, renderctl, syncvars, acquired, processed>>

\* a camera frame is read and cut into the image and temperature buffers
AcqFill ==
  /\ Running
  /\ acq_pc = "fill"
  /\ acquired' = acquired + 1
  /\ content' = [content EXCEPT !["image_frame"].frame = acquired + 1,
                                !["temp_frame"].frame = acquired + 1]
  /\ acq_pc' = "post"
  /\ UNCHANGED <<hostvars, pixvars, memvars, infovars, frame_state, human_segmentation_enabled, shown,
                 sink_open, renderctl, syncvars, processed>>

\* "frame ready"
AcqPost ==
  /\ Running
  /\ acq_pc = "post"
  /\ image_sem' = image_sem + 1
  /\ acq_pc' = "wait_done"
  /\ UNCHANGED <<hostvars, pixvars, memvars, infovars, framevars, renderctl, is_streaming, image_done_sem,
                 acquired, processed>>

\* wait for "frame consumed"
AcqWaitDone ==
  /\ Running
  /\ acq_pc = "wait_done"
  /\ image_done_sem > 0
  /\ image_done_sem' = image_done_sem - 1
  /\ acq_pc' = "check"
  /\ UNCHANGED <<hostvars, pixvars, memvars, infovars, framevars, renderctl, is_streaming, image_sem,
                 acquired, processed>>

\* ir_camera_stream_off: is_streaming = 0
StreamOff ==
  /\ Running
  /\ is_streaming # 0
  /\ is_streaming' = 0
  /\ UNCHANGED <<hostvars, pixvars, memvars, infovars, framevars, renderctl, image_sem, image_done_sem,
                 acqvars, processed>>

Next ==
  \/ RenderStart \/ RenderLoop \/ RenderWait \/ RenderDisplay \/ RenderPresent
  \/ RenderPost \/ RenderExit
  \/ AcqCheck \/ AcqFill \/ AcqPost \/ AcqWaitDone \/ StreamOff

Spec == Init /\ [][Next]_vars

\* one step of the render thread, one step of the acquisition thread
RenderStep ==
  \/ RenderStart \/ RenderLoop \/ RenderWait \/ RenderDisplay \/ RenderPresent
  \/ RenderPost \/ RenderExit

AcqStep == AcqCheck \/ AcqFill \/ AcqPost \/ AcqWaitDone

\* the two threads under a scheduler that lets each runnable thread run; the
\* call of ir_camera_stream_off is left to the host
SpecLive == Spec /\ WF_vars(RenderStep) /\ WF_vars(AcqStep)

---------------------------------------------------------------------------
(* Buffer manager driven by arbitrary call sequences *)

\* the variables of the threads, at rest
ThreadsIdle ==
  /\ temp_frame = 1
  /\ frame_state = NoFrame
  /\ human_segmentation_enabled = 0
  /\ shown = NotShown
  /\ sink_open = FALSE
  /\ threadarg = 1
  /\ render_pc = "start"
  /\ i = 0
  /\ is_streaming = 0
  /\ image_sem = ImageSemInit
  /\ image_done_sem = ImageDoneSemInit
  /\ acq_pc = "check"
  /\ acquired = 0
  /\ processed = <<>>

InitBuf ==
  /\ image_tmp_frame1 = NULL
  /\ image_tmp_frame2 = NULL
  /\ heap = EmptyHeap
  /\ last_call = NoCall
  /\ image_info = FrameInfo(1, 1, "INPUT_FMT_Y14", "OUTPUT_FMT_BGR888",
                            "IMG_ENHANCE_OFF", "PSEUDO_COLOR_OFF",
                            "STATUS_NO_MIRROR_FLIP", "NO_ROTATE")
  /\ temp_info = [width |-> 1, height |-> 1]
  /\ content = InitialContent("INPUT_FMT_Y14")
  /\ ThreadsIdle
  /\ plane_in = NoPlane
  /\ plane_out = NoPlane
  /\ HostIdle

\* a call of display_init(stream_frame_info)
BufInit ==
  \E w \in Dims, h \in Dims, ok1 \in BOOLEAN, ok2 \in BOOLEAN :
    /\ Cardinality(Used(heap)) + Cardinality({NULL} \cap {image_tmp_frame1})
         + Cardinality({NULL} \cap {image_tmp_frame2}) <= MaxBlocks
    /\ image_info' = [image_info EXCEPT !.width = w, !.height = h]
    /\ SetMem(display_init(Mem, w * h, ok1, ok2))
    /\ last_call' = CallRecord("init", w * h, ok1, ok2)
    /\ UNCHANGED <<hostvars, pixvars, temp_info, temp_frame, framevars, renderctl, syncvars, acqvars,
                   processed>>

\* a call of display_release()
BufRelease ==
  /\ SetMem(display_release(Mem))
  /\ last_call' = CallRecord("release", 0, TRUE, TRUE)
  /\ UNCHANGED <<hostvars, pixvars, infovars, framevars, renderctl, syncvars, acqvars, processed>>

NextBuf == BufInit \/ BufRelease

SpecBuf == InitBuf /\ [][NextBuf]_vars

---------------------------------------------------------------------------
(* Format converter driven over every frame description *)

InitConv ==
  /\ image_tmp_frame1 = 1
  /\ image_tmp_frame2 = 2
  /\ image_info \in FrameInfos
  /\ heap = [b \in Blocks |->
               IF b \in {1, 2}
               THEN [st |-> "live", size |-> image_info.width * image_info.height * 3,
                     nfree |-> 0]
               ELSE [st |-> "unused", size |-> 0, nfree |-> 0]]
  /\ last_call = [NoCall EXCEPT !.op = "init",
                                !.pixel_size = image_info.width * image_info.height]
  /\ temp_info = [width |-> image_info.width, height |-> image_info.height]
  /\ content = [InitialContent(image_info.input_format)
                  EXCEPT !["image_frame"].frame = 1]
  /\ ThreadsIdle
  /\ plane_in = NoPlane
  /\ plane_out = NoPlane
  /\ HostIdle

\* display_image_process(image_frame, pix_num, &image_info)
ConvCall ==
  LET r == display_image_process("image_frame",
                                 image_info.width * image_info.height, image_info)
  IN /\ image_info' = [image_info EXCEPT !.byte_size = r.byte_size]
     /\ content' = ApplyStages(content, r.stages)
     /\ frame_state' = [NoFrame EXCEPT !.mode = "convert", !.byte_size = r.byte_size,
                                       !.err = r.err, !.stages = r.stages,
                                       !.width = image_info.width,
                                       !.height = image_info.height]
     /\ UNCHANGED <<hostvars, pixvars, memvars, temp_info, temp_frame, human_segmentation_enabled, shown,
                    sink_open, renderctl, syncvars, acqvars, processed>>

\* the capture layer changes one setting of image_info between two frames
Reconfigure ==
  /\ \/ \E inf \in InputFormats :
          /\ image_info' = [image_info EXCEPT !.input_format = inf]
          /\ content' = [content EXCEPT !["image_frame"].fmt = inf]
     \/ /\ \/ \E outf \in OutputFormats :
                image_info' = [image_info EXCEPT !.output_format = outf]
           \/ \E enh \in EnhanceStates :
                image_info' = [image_info EXCEPT !.img_enhance_status = enh]
           \/ \E pc \in PseudoColorStates :
                image_info' = [image_info EXCEPT !.pseudo_color_status = pc]
        /\ content' = content
  /\ frame_state' = NoFrame
  /\ UNCHANGED <<hostvars, pixvars, memvars, temp_info, temp_frame, human_segmentation_enabled, shown,
                 sink_open, renderctl, syncvars, acqvars, processed>>

NextConv == ConvCall \/ Reconfigure

SpecConv == InitConv /\ [][NextConv]_vars

---------------------------------------------------------------------------
(* display_one_frame called frame after frame, every setting drawn *)

\* every FrameInfo_t within the bounds, mirror / flip and rotation included
AllFrameInfos ==
  {FrameInfo(w, h, inf, outf, enh, pc, mf, rot) :
     w \in Dims, h \in Dims, inf \in InputFormats, outf \in OutputFormats,
     enh \in EnhanceStates, pc \in PseudoColorStates,
     mf \in MirrorFlipStates, rot \in RotateSides}

InitFrame ==
  /\ image_tmp_frame1 = 1
  /\ image_tmp_frame2 = 2
  /\ image_info \in AllFrameInfos
  /\ heap = [b \in Blocks |->
               IF b \in {1, 2}
               THEN [st |-> "live", size |-> image_info.width * image_info.height * 3,
                     nfree |-> 0]
               ELSE [st |-> "unused", size |-> 0, nfree |-> 0]]
  /\ last_call = [NoCall EXCEPT !.op = "init",
                                !.pixel_size = image_info.width * image_info.height]
  /\ temp_info \in {[width |-> w, height |-> 1] : w \in Dims}
  /\ temp_frame \in {NULL, 1}
  /\ content = [InitialContent(image_info.input_format)
                  EXCEPT !["image_frame"].frame = 1, !["temp_frame"].frame = 1]
  /\ frame_state = NoFrame
  /\ human_segmentation_enabled = 0
  /\ shown = NotShown
  /\ sink_open = FALSE
  /\ threadarg = NULL
  /\ render_pc = "done"
  /\ i = 0
  /\ is_streaming = 0
  /\ image_sem = 0
  /\ image_done_sem = 0
  /\ acq_pc = "exit"
  /\ acquired = 0
  /\ processed = <<>>
  /\ plane_in = NoPlane
  /\ plane_out = NoPlane
  /\ HostIdle

\* display_one_frame(stream_frame_info), scratch buffers allocated:
\* processing, hand-over to the presentation sink, key poll
FrameCall ==
  \E alloc_ok \in BOOLEAN, key \in {"none", "s"} :
    LET r == display_one_frame(image_info, temp_info, temp_frame,
                               human_segmentation_enabled, image_tmp_frame2, alloc_ok)
        c == ApplyStages(content, r.stages)
    IN /\ frame_state' = r
       /\ image_info' = [image_info EXCEPT !.byte_size = r.byte_size]
       /\ content' = c
       /\ shown' = [buf |-> image_tmp_frame2, width |-> r.width, height |-> r.height,
                    byte_size |-> r.byte_size, mode |-> r.mode, err |-> r.err,
                    frame |-> c["image_tmp_frame2"].frame]
       /\ sink_open' = TRUE
       /\ human_segmentation_enabled' =
            IF key = "s" THEN 1 - human_segmentation_enabled
            ELSE human_segmentation_enabled
       /\ UNCHANGED <<hostvars, pixvars, memvars, temp_info, temp_frame, renderctl, syncvars, acqvars,
                      processed>>

NextFrame == FrameCall

SpecFrame == InitFrame /\ [][NextFrame]_vars

---------------------------------------------------------------------------
(* Pixel-level functions: enhancement *)

\* the pipeline state while a pixel-level function is examined on its own
PipelineIdle ==
  /\ image_tmp_frame1 = NULL
  /\ image_tmp_frame2 = NULL
  /\ heap = EmptyHeap
  /\ last_call = NoCall
  /\ image_info = FrameInfo(1, 1, "INPUT_FMT_Y14", "OUTPUT_FMT_BGR888",
                            "IMG_ENHANCE_OFF", "PSEUDO_COLOR_OFF",
                            "STATUS_NO_MIRROR_FLIP", "NO_ROTATE")
  /\ temp_info = [width |-> 1, height |-> 1]
  /\ content = InitialContent("INPUT_FMT_Y14")
  /\ ThreadsIdle

\* every plane of 1..MaxPix pixels over the values given
Planes(values) == UNION {[1..n -> values] : n \in 1..MaxPix}

MinOf(S) == CHOOSE x \in S : \A y \in S : x <= y
MaxOf(S) == CHOOSE x \in S : \A y \in S : x >= y

\* uint16_t intensities drawn as input: both ends of the 16-bit range, both
\* ends of the 14-bit range, and values between
PixelValues == {0, 1, 8191, 16383, 65535}

\* a product computed in 16-bit arithmetic
ShortMul(a, b) == (((a * b) + 32768) % 65536) - 32768

\* a product of two int operands in 0..65535: 32 bits, two's complement,
\* computed in 16-bit halves (hi, lo)
IntMul(a, b) ==
  LET t == (a \div 256) * b
      u == (a % 256) * b
      lo_sum == ((t % 256) * 256) + (u % 65536)
      lo == lo_sum % 65536
      hi == ((t \div 256) + (u \div 65536) + (lo_sum \div 65536)) % 65536
  IN IF hi >= 32768 THEN (hi - 65536) * 65536 + lo ELSE hi * 65536 + lo

\* int division truncates toward zero
IntDiv(a, b) == IF a >= 0 THEN a \div b ELSE -((-a) \div b)

\* the stretch with a flat plane mapped to the middle of the range
StretchMid(v, min_val, max_val) ==
  IF max_val > min_val
  THEN IntDiv(IntMul(v - min_val, 16383), max_val - min_val) % 65536
  ELSE 8191

\* dst_frame[i] for src_frame[i] = v, stored as uint16_t
Stretch(v, min_val, max_val) ==
  IF max_val > min_val
  THEN IntDiv(IntMul(v - min_val, 16383), max_val - min_val) % 65536
  ELSE v

\* enhance_image_frame on pixel data: the plane written, the range found
\* by the first loop and the number of divisions executed
enhance_image_frame_data(src_frame, img_enhance_status) ==
  LET pix_num == Len(src_frame)
      vals == {src_frame[k] : k \in 1..pix_num}
      min_val == MinOf(vals \cup {65535})
      max_val == MaxOf(vals \cup {0})
  IN IF img_enhance_status = "IMG_ENHANCE_ON"
     THEN [op |-> "enhance_image_frame",
           dst_frame |-> [k \in 1..pix_num |-> Stretch(src_frame[k], min_val, max_val)],
           min_val |-> min_val, max_val |-> max_val,
           divisions |-> IF max_val > min_val THEN pix_num ELSE 0]
     ELSE [op |-> "enhance_image_frame", dst_frame |-> src_frame,
           min_val |-> 65535, max_val |-> 0, divisions |-> 0]

InitEnh ==
  /\ PipelineIdle
  /\ HostIdle
  /\ plane_in \in {[op |-> "enhance_image_frame", src_frame |-> f,
                     img_enhance_status |-> e] :
                      f \in Planes(PixelValues), e \in EnhanceStates}
  /\ plane_out = NoPlane

\* enhance_image_frame(src_frame, frameinfo, dst_frame)
EnhanceCall ==
  /\ plane_in.op = "enhance_image_frame"
  /\ plane_out' = enhance_image_frame_data(plane_in.src_frame,
                                           plane_in.img_enhance_status)
  /\ UNCHANGED <<hostvars, plane_in, memvars, infovars, framevars, renderctl, syncvars,
                 acqvars, processed>>

NextEnh == EnhanceCall

SpecEnh == InitEnh /\ [][NextEnh]_vars

---------------------------------------------------------------------------
(* Pixel-level functions: temperature segmentation *)

\* the temperature band of a human body, degrees Celsius (display.h)
HUMAN_TEMP_MIN_CELSIUS == 28
HUMAN_TEMP_MAX_CELSIUS == 40

\* temp_value_converter: temp_val / 64 - 273.15 degrees Celsius, given here
\* in units of 1/6400 degree
temp_value_converter(temp_val) == (temp_val * 100) - (27315 * 64)

\* temp_celsius >= HUMAN_TEMP_MIN_CELSIUS && temp_celsius <= HUMAN_TEMP_MAX_CELSIUS
InBand(temp_raw) ==
  /\ temp_value_converter(temp_raw) >= HUMAN_TEMP_MIN_CELSIUS * 6400
  /\ temp_value_converter(temp_raw) <= HUMAN_TEMP_MAX_CELSIUS * 6400

\* one pixel of the temperature plane with the outcome of get_point_temp
\* at it: the intensity word, IRTEMP_SUCCESS or not, the code in 1/64 K
\* (after a failure temp_raw holds its initial 0 or whatever the call left)
SegValues == {19274, 19300, 20041}
TempCodes == {19273, 19274, 20041, 20042}
SegPixels ==
  {[y14 |-> y, ok |-> TRUE, temp_raw |-> t] : y \in SegValues, t \in TempCodes}
    \cup {[y14 |-> y, ok |-> FALSE, temp_raw |-> t] : y \in SegValues, t \in {0, 19274}}

\* the band test applied without looking at the result of the lookup
HumanByCode(px) == InBand(px.temp_raw)

\* the pixel passes both tests of the scans
Human(px) == px.ok /\ InBand(px.temp_raw)

\* the stretch of the second scan with the division always made
SegStretchAlways(y, min_y14, max_y14) ==
  [masked |-> IF max_y14 > min_y14
              THEN ((y - min_y14) * 16383) \div (max_y14 - min_y14)
              ELSE 0,
   divisor |-> max_y14 - min_y14]

\* masked_y14[pixel_index] of an in-band pixel and the divisor used (-1: no
\* division); (uint16_t)(normalized * 16383.0f) is the truncated quotient
\* for the intensities drawn here
SegStretch(y, min_y14, max_y14) ==
  IF max_y14 > min_y14
  THEN [masked |-> ((y - min_y14) * 16383) \div (max_y14 - min_y14),
        divisor |-> max_y14 - min_y14]
  ELSE [masked |-> 8191, divisor |-> -1]

\* segment_human_by_real_temperature on pixel data.  alloc tells which
\* malloc fails: "masked_y14", "colour" (yuyv_buffer or rgb_buffer) or "none".
\* dst_frame holds per pixel either the forced (0,0,0) or the colour the
\* vendor table gives for its masked intensity; it is <<>> when the
\* function returns before writing it.
segment_human_data(pixels, alloc) ==
  LET pix_num == Len(pixels)
      human == {k \in 1..pix_num : Human(pixels[k])}
      min_y14 == MinOf({pixels[k].y14 : k \in human} \cup {65535})
      max_y14 == MaxOf({pixels[k].y14 : k \in human} \cup {0})
      st == [k \in 1..pix_num |->
               IF k \in human THEN SegStretch(pixels[k].y14, min_y14, max_y14)
               ELSE [masked |-> 0, divisor |-> -1]]
      masked_y14 == [k \in 1..pix_num |-> st[k].masked]
  IN IF alloc = "masked_y14"
     THEN [op |-> "segment_human_by_real_temperature", masked_y14 |-> <<>>,
           human_pixel_count |-> 0, divisors |-> {}, min_y14 |-> 65535, max_y14 |-> 0, dst_frame |-> <<>>]
     ELSE [op |-> "segment_human_by_real_temperature", masked_y14 |-> masked_y14,
           human_pixel_count |-> Cardinality(human),
           divisors |-> {st[k].divisor : k \in human},
           min_y14 |-> min_y14, max_y14 |-> max_y14,
           dst_frame |-> IF alloc = "colour" THEN <<>>
                         ELSE [k \in 1..pix_num |->
                                 IF masked_y14[k] = 0
                                 THEN [colour |-> "forced_black", index |-> 0]
                                 ELSE [colour |-> "IRPROC_COLOR_MODE_6",
                                       index |-> masked_y14[k]]]]

InitSeg ==
  /\ PipelineIdle
  /\ HostIdle
  /\ plane_in \in {[op |-> "segment_human_by_real_temperature", y14_data |-> f] :
                      f \in Planes(SegPixels)}
  /\ plane_out = NoPlane

\* segment_human_by_real_temperature(y14_data, width, height, dst_frame)
SegCall ==
  /\ plane_in.op = "segment_human_by_real_temperature"
  /\ \E alloc \in {"none", "masked_y14", "colour"} :
       plane_out' = segment_human_data(plane_in.y14_data, alloc)
  /\ UNCHANGED <<hostvars, plane_in, memvars, infovars, framevars, renderctl, syncvars,
                 acqvars, processed>>

NextSeg == SegCall

SpecSeg == InitSeg /\ [][NextSeg]_vars

---------------------------------------------------------------------------
(* Pixel-level functions: mirror and flip *)

\* pixel values of the test patterns; a scratch buffer starts with StalePixel
GeoValues == {1, 2}
StalePixel == 0

\* mirror: every row reversed left to right
MirrorPlane(f, width, height) ==
  [k \in 1..(width * height) |->
     f[(((k - 1) \div width) * width) + (width - ((k - 1) % width))]]

\* flip: the rows in reverse order
FlipPlane(f, width, height) ==
  [k \in 1..(width * height) |->
     f[((height - 1 - ((k - 1) \div width)) * width) + ((k - 1) % width) + 1]]

\* memcpy of n pixels
CopyPlane(src, dst, n) ==
  [k \in 1..Len(dst) |-> IF k <= n /\ k <= Len(src) THEN src[k] ELSE dst[k]]

\* the buffers after the stages ran on pixel data, 3 bytes per pixel
RECURSIVE RunStages(_, _, _, _)
RunStages(mem, stages, width, height) ==
  IF stages = <<>> THEN mem
  ELSE LET st == Head(stages)
           out == CASE st.op = "mirror" -> MirrorPlane(mem[st.src], width, height)
                    [] st.op = "flip" -> FlipPlane(mem[st.src], width, height)
                    [] OTHER -> CopyPlane(mem[st.src], mem[st.dst], st.bytes \div 3)
       IN RunStages([mem EXCEPT ![st.dst] = out], Tail(stages), width, height)

InitGeo ==
  /\ PipelineIdle
  /\ HostIdle
  /\ plane_in \in {[op |-> "mirror_flip_demo", width |-> w, height |-> h,
                     frame |-> f, mirror_flip_status |-> m] :
                      m \in MirrorFlipStates,
                      w \in Dims, h \in Dims,
                      f \in UNION {[1..n -> GeoValues] : n \in 1..(MaxDim * MaxDim)}}
  /\ Len(plane_in.frame) = plane_in.width * plane_in.height
  /\ plane_out = NoPlane

\* mirror_flip_demo(&image_info, image_tmp_frame2, mirror_flip_status) on a
\* BGR888 frame
MirrorFlipCall ==
  /\ plane_in.op = "mirror_flip_demo"
  /\ LET pix_num == plane_in.width * plane_in.height
         info == [FrameInfo(plane_in.width, plane_in.height, "INPUT_FMT_Y14",
                            "OUTPUT_FMT_BGR888", "IMG_ENHANCE_OFF",
                            "PSEUDO_COLOR_OFF", plane_in.mirror_flip_status,
                            "NO_ROTATE") EXCEPT !.byte_size = pix_num * 3]
         stages == mirror_flip_demo(info, "image_tmp_frame2",
                                    plane_in.mirror_flip_status)
         mem == RunStages([b \in {"image_tmp_frame1", "image_tmp_frame2"} |->
                             IF b = "image_tmp_frame2" THEN plane_in.frame
                             ELSE [k \in 1..pix_num |-> StalePixel]],
                          stages, plane_in.width, plane_in.height)
     IN plane_out' = [op |-> "mirror_flip_demo", stages |-> stages,
                      frame |-> mem["image_tmp_frame2"],
                      image_tmp_frame1 |-> mem["image_tmp_frame1"]]
  /\ UNCHANGED <<hostvars, plane_in, memvars, infovars, framevars, renderctl, syncvars,
                 acqvars, processed>>

NextGeo == MirrorFlipCall

SpecGeo == InitGeo /\ [][NextGeo]_vars

---------------------------------------------------------------------------
(* Frame-rate bookkeeping of display_one_frame *)

\* what gettimeofday can report after the epoch: wall-clock time, which may
\* stand still or step back between two calls
TimeValues ==
  {[tv_sec |-> sec, tv_usec |-> usec] :
     sec \in 1..MaxSec, usec \in {0, 1, 500000, 999999}}

\* (now_time.tv_sec - last_time.tv_sec)*1000000 + (now_time.tv_usec - last_time.tv_usec)
Elapsed(now_time, prev_time) ==
  ((now_time.tv_sec - prev_time.tv_sec) * 1000000)
    + (now_time.tv_usec - prev_time.tv_usec)

\* float frame = 1000000 / (double)elapsed, in hundredths; the quotient is
\* always formed and always printed.  A zero divisor gives an infinity,
\* recorded as frame 0 with divisor 0.
FrameRate(elapsed) ==
  [op |-> "computed", elapsed |-> elapsed, divisor |-> elapsed,
   frame |-> IF elapsed = 0 THEN 0
             ELSE IF elapsed > 0 THEN 100000000 \div elapsed
             ELSE -(100000000 \div (-elapsed)),
   available |-> TRUE]

InitRate ==
  /\ PipelineIdle
  /\ HostIdle
  /\ plane_in = NoPlane
  /\ plane_out = NoPlane

\* display_one_frame, lines 601-608: gettimeofday, the rate, last_time
RateCall ==
  /\ \E now_time \in TimeValues :
       /\ rate' = FrameRate(Elapsed(now_time, last_time))
       /\ last_time' = now_time
  /\ UNCHANGED <<camera, pixvars, memvars, infovars, framevars, renderctl,
                 syncvars, acqvars, processed>>

NextRate == RateCall

SpecRate == InitRate /\ [][NextRate]_vars

---------------------------------------------------------------------------
(* simple_camera interface driven by arbitrary call sequences *)

\* the handle argument of a call: NULL or the handle created
Handles == {NULL, 1}

\* the call returns: which call, its value, whether it read a frame
Returns(c, call, ret) == [c EXCEPT !.call = call, !.ret = ret, !.fetched = FALSE]

\* simple_camera_close: destroy_data_demo, ir_camera_close
simple_camera_close(c, handle) ==
  IF handle = NULL THEN Returns(c, "close", -1)
  ELSE Returns([c EXCEPT !.buffers = IF @ = "allocated" THEN "freed" ELSE @,
                         !.device = "closed"], "close", 0)

\* simple_camera_create: malloc of the handle
CamCreate ==
  /\ camera.handle = "none"
  /\ \E ok \in BOOLEAN :
       camera' = Returns([camera EXCEPT !.handle = IF ok THEN "live" ELSE "none"],
                         "create", IF ok THEN 1 ELSE NULL)
  /\ UNCHANGED <<last_time, rate, pixvars, memvars, infovars, framevars, renderctl,
                 syncvars, acqvars, processed>>

\* simple_camera_destroy: free(handle)
CamDestroy ==
  /\ \E handle \in Handles :
       /\ handle # NULL => camera.handle = "live"
       /\ camera' = Returns(IF handle # NULL
                            THEN [camera EXCEPT !.handle = "freed"] ELSE camera,
                            "destroy", 0)
  /\ UNCHANGED <<last_time, rate, pixvars, memvars, infovars, framevars, renderctl,
                 syncvars, acqvars, processed>>

\* simple_camera_open: ir_camera_open, then create_data_demo
CamOpen ==
  /\ camera.device = "closed"
  /\ camera.buffers # "allocated"
  /\ \E handle \in Handles, ir_camera_open \in {0, -1} :
       /\ handle # NULL => camera.handle = "live"
       /\ camera' = IF handle = NULL THEN Returns(camera, "open", -1)
                    ELSE IF ir_camera_open # 0
                    THEN Returns(camera, "open", ir_camera_open)
                    ELSE Returns([camera EXCEPT !.device = "open",
                                                !.buffers = "allocated"], "open", 0)
  /\ UNCHANGED <<last_time, rate, pixvars, memvars, infovars, framevars, renderctl,
                 syncvars, acqvars, processed>>

CamClose ==
  /\ \E handle \in Handles :
       /\ handle # NULL => camera.handle = "live"
       /\ camera' = simple_camera_close(camera, handle)
  /\ UNCHANGED <<last_time, rate, pixvars, memvars, infovars, framevars, renderctl,
                 syncvars, acqvars, processed>>

\* simple_camera_start_stream: ir_camera_stream_on starts the acquisition
\* thread
CamStartStream ==
  /\ camera.stream = "off"
  /\ \E handle \in Handles :
       /\ handle # NULL => (camera.handle = "live" /\ camera.device = "open")
       /\ camera' = IF handle = NULL THEN Returns(camera, "start_stream", -1)
                    ELSE Returns([camera EXCEPT !.stream = "on"], "start_stream", 0)
  /\ UNCHANGED <<last_time, rate, pixvars, memvars, infovars, framevars, renderctl,
                 syncvars, acqvars, processed>>

\* simple_camera_stop_stream: ir_camera_stream_off clears is_streaming and
\* joins the acquisition thread
CamStopStream ==
  /\ \E handle \in Handles :
       /\ handle # NULL => camera.handle = "live"
       /\ camera' = IF handle = NULL THEN Returns(camera, "stop_stream", -1)
                    ELSE Returns([camera EXCEPT !.stream = "off"], "stop_stream", 0)
  /\ UNCHANGED <<last_time, rate, pixvars, memvars, infovars, framevars, renderctl,
                 syncvars, acqvars, processed>>

\* simple_camera_get_frame: returns at once, no frame is read
CamGetFrame ==
  /\ \E handle \in Handles :
       /\ handle # NULL => camera.handle = "live"
       /\ camera' = Returns(camera, "get_frame", IF handle = NULL THEN -1 ELSE 0)
  /\ UNCHANGED <<last_time, rate, pixvars, memvars, infovars, framevars, renderctl,
                 syncvars, acqvars, processed>>

\* the acquisition thread started by ir_camera_stream_on stores one more
\* frame in the frame buffers
CamAcquire ==
  /\ camera.stream = "on"
  /\ camera.frames_read < MaxFrames
  /\ camera' = IF camera.buffers = "allocated"
               THEN [camera EXCEPT !.frames_read = @ + 1]
               ELSE [camera EXCEPT !.frames_read = @ + 1, !.stale_access = TRUE]
  /\ UNCHANGED <<last_time, rate, pixvars, memvars, infovars, framevars, renderctl,
                 syncvars, acqvars, processed>>

InitCam ==
  /\ PipelineIdle
  /\ HostIdle
  /\ plane_in = NoPlane
  /\ plane_out = NoPlane

NextCam ==
  \/ CamCreate \/ CamDestroy \/ CamOpen \/ CamClose \/ CamStartStream
  \/ CamStopStream \/ CamGetFrame \/ CamAcquire

SpecCam == InitCam /\ [][NextCam]_vars

---------------------------------------------------------------------------
(* Buffer manager properties *)

FailedSecondAlloc ==
  /\ last_call.op = "init"
  /\ last_call.pre1 = NULL /\ last_call.ok1
  /\ last_call.pre2 = NULL /\ ~last_call.ok2

\* C7: when display_init allocates buffer A and the allocation of buffer B
\* fails, buffer A has been freed and its pointer reset to NULL when
\* display_init returns: no scratch buffer remains allocated after a failed
\* initialization.
C7_FailedInitFreesFirst ==
  /\ FailedSecondAlloc =>
       /\ image_tmp_frame1 = NULL
       /\ image_tmp_frame2 = NULL
       /\ Cardinality(Used(heap)) = last_call.pre_used + 1
       /\ SumFree(heap, Blocks) = last_call.pre_frees + 1
  /\ (last_call.op = "init" /\ NULL \in {image_tmp_frame1, image_tmp_frame2}) =>
       Live(heap) = {}

C7_Witness ==
  /\ FailedSecondAlloc
  /\ image_tmp_frame1 = NULL
  /\ Cardinality(Used(heap)) = last_call.pre_used + 1

\* C9: display_release does nothing when the scratch buffers are
\* unallocated; over any sequence of display_init / display_release calls no
\* block is freed twice, no allocated block is without an owning pointer, and
\* after display_release no block is left allocated.
C9_ReleaseFreesOnce ==
  /\ \A b \in Blocks : heap[b].nfree <= 1
  /\ Live(heap) \subseteq {image_tmp_frame1, image_tmp_frame2}
  /\ last_call.op = "release" =>
       /\ image_tmp_frame1 = NULL
       /\ image_tmp_frame2 = NULL
       /\ Live(heap) = {}
  /\ (last_call.op = "release" /\ last_call.pre1 = NULL /\ last_call.pre2 = NULL) =>
       /\ SumFree(heap, Blocks) = last_call.pre_frees
       /\ Cardinality(Used(heap)) = last_call.pre_used

C9_Witness ==
  /\ last_call.op = "release"
  /\ last_call.pre1 = NULL /\ last_call.pre2 = NULL
  /\ SumFree(heap, Blocks) >= 4

BothAllocatedBeforeInit ==
  /\ last_call.op = "init"
  /\ last_call.pre1 # NULL
  /\ last_call.pre2 # NULL

\* C10: display_init called with both scratch buffers allocated performs no
\* allocation and no release and leaves both pointers unchanged.
C10_InitIdempotent ==
  BothAllocatedBeforeInit =>
    /\ image_tmp_frame1 = last_call.pre1
    /\ image_tmp_frame2 = last_call.pre2
    /\ Cardinality(Used(heap)) = last_call.pre_used
    /\ SumFree(heap, Blocks) = last_call.pre_frees
    /\ Live(heap) = {image_tmp_frame1, image_tmp_frame2}

C10_Witness ==
  /\ BothAllocatedBeforeInit
  /\ image_tmp_frame1 = last_call.pre1
  /\ image_tmp_frame2 = last_call.pre2

BothAllocated == image_tmp_frame1 # NULL /\ image_tmp_frame2 # NULL

\* C11 as stated: whenever the scratch buffers are allocated, each holds
\* width * height * 3 bytes for the width and height passed to the most
\* recent display_init call.
C11_SizeOfLastInit ==
  BothAllocated =>
    /\ heap[image_tmp_frame1].size = last_call.pixel_size * 3
    /\ heap[image_tmp_frame2].size = last_call.pixel_size * 3

\* C11 amended: whenever the scratch buffers are allocated, each holds
\* width * height * 3 bytes for the width and height passed to the
\* display_init call that allocated them; a display_init call made while
\* they are allocated leaves their sizes as they were.
C11_SizeOfAllocatingInit ==
  BothAllocated =>
    /\ last_call.op = "init"
    /\ heap[image_tmp_frame1].size = heap[image_tmp_frame2].size
    /\ (last_call.pre1 = NULL /\ last_call.pre2 = NULL) =>
         heap[image_tmp_frame1].size = last_call.pixel_size * 3
    /\ (last_call.pre1 # NULL /\ last_call.pre2 # NULL) =>
         /\ heap[image_tmp_frame1].size = last_call.pre_size1
         /\ heap[image_tmp_frame2].size = last_call.pre_size2

\* buffers allocated for one resolution, display_init called again for a
\* larger one
C11_Witness ==
  /\ BothAllocated
  /\ last_call.op = "init"
  /\ last_call.pre1 # NULL /\ last_call.pre2 # NULL
  /\ heap[image_tmp_frame1].size < last_call.pixel_size * 3

\* C27: in every state reachable by any sequence of display_init calls (with
\* either allocation succeeding or failing) and display_release calls, the
\* two scratch buffer pointers are either both allocated or both NULL.
C27_BothOrNeither ==
  \/ image_tmp_frame1 = NULL /\ image_tmp_frame2 = NULL
  \/ /\ image_tmp_frame1 # NULL /\ image_tmp_frame2 # NULL
     /\ image_tmp_frame1 # image_tmp_frame2
     /\ {image_tmp_frame1, image_tmp_frame2} \subseteq Live(heap)

\* the buffers were allocated and released before, and the last display_init
\* failed at its first allocation
C27_Witness ==
  /\ last_call.op = "init"
  /\ last_call.pre1 = NULL /\ ~last_call.ok1
  /\ SumFree(heap, Blocks) >= 2
  /\ image_tmp_frame1 = NULL /\ image_tmp_frame2 = NULL

---------------------------------------------------------------------------
(* Format converter properties *)

\* bytes per pixel of an output format
bpp(output_format) ==
  IF output_format \in {"OUTPUT_FMT_Y14", "OUTPUT_FMT_YUV422"} THEN 2 ELSE 3

Unsupported(frameinfo) ==
  /\ frameinfo.input_format = "INPUT_FMT_YUV422"
  /\ frameinfo.output_format \in {"OUTPUT_FMT_Y14", "OUTPUT_FMT_YUV444"}

Converted == frame_state.mode = "convert"

\* C1: after display_image_process on a supported input / output
\* combination, image_info.byte_size is width * height * bpp(output_format).
C1_ByteSize ==
  (Converted /\ ~Unsupported(image_info)) =>
    image_info.byte_size = image_info.width * image_info.height
                             * bpp(image_info.output_format)

\* a conversion on which byte_size follows the output format
C1_Witness ==
  /\ Converted
  /\ image_info.input_format = "INPUT_FMT_Y16"
  /\ image_info.output_format = "OUTPUT_FMT_YUV422"
  /\ image_info.pseudo_color_status = "PSEUDO_COLOR_ON"
  /\ image_info.byte_size = image_info.width * image_info.height * 2

\* C5: for packed YUV422 input with output Y14 or YUV444,
\* display_image_process sets byte_size to 0, reports a conversion error and
\* runs no stage, so nothing is written to the scratch buffers, whatever the
\* enhancement and pseudo-colour flags are.
C5_UnsupportedIsError ==
  (Converted /\ Unsupported(image_info)) =>
    /\ image_info.byte_size = 0
    /\ frame_state.err
    /\ frame_state.stages = <<>>
    /\ Written(frame_state.stages) = {}

C5_Witness ==
  /\ Converted
  /\ Unsupported(image_info)
  /\ image_info.pseudo_color_status = "PSEUDO_COLOR_ON"
  /\ image_info.img_enhance_status = "IMG_ENHANCE_ON"
  /\ image_info.byte_size = 0
  /\ content["image_tmp_frame2"].fmt = "BGR888"

---------------------------------------------------------------------------
(* Thread properties *)

Processing == render_pc \in {"display", "present"}

\* C2: the render thread runs display_one_frame on the acquired frames only,
\* once each and in acquisition order: the k-th run is on frame k, and there
\* are never more runs than acquired frames.
C2_ProcessedInOrder ==
  /\ \A k \in 1..Len(processed) : processed[k] = k
  /\ Len(processed) <= acquired

\* C3: strict alternation: every run of display_one_frame follows one taken
\* "frame ready" signal, "frame consumed" is posted once per run and after it
\* returned, and the acquisition thread does not fill the shared frame
\* buffers while display_one_frame is running.
C3_StrictAlternation ==
  /\ Processing => acq_pc # "fill"
  /\ render_pc \in {"loop", "wait", "release", "done"} => Len(processed) = i
  /\ render_pc \in {"present", "post"} => Len(processed) = i + 1

\* C4: a frame whose conversion failed (byte_size 0 after
\* display_image_process) is not handed to the presentation sink.
C4_FailedConversionNotShown ==
  ~(shown.mode = "normal" /\ shown.err /\ shown.byte_size = 0)

\* C6: display_one_frame is never executed while a scratch buffer is
\* unallocated.
C6_NoFrameWithoutBuffers ==
  Processing => (image_tmp_frame1 # NULL /\ image_tmp_frame2 # NULL)

Returned == render_pc = "done" /\ threadarg # NULL

\* C8: when display_function returns after having run display_init,
\* display_release has been called, both scratch buffers are freed with
\* their pointers NULL, and the presentation sink is closed.
C8_ExitReleases ==
  Returned =>
    /\ last_call.op = "release"
    /\ image_tmp_frame1 = NULL
    /\ image_tmp_frame2 = NULL
    /\ Live(heap) = {}
    /\ ~sink_open

\* the loop was left on the exhausted frame budget, with buffers to release
\* and a window to close
C8_Witness ==
  /\ Returned
  /\ i > StreamTime * Fps
  /\ last_call.op = "release" /\ last_call.pre1 # NULL /\ last_call.pre2 # NULL
  /\ shown.mode # "none"
  /\ ~sink_open

\* the stream was switched off and the frame budget of the render loop is
\* used up
ShutdownRequested ==
  /\ threadarg # NULL
  /\ is_streaming = 0
  /\ i > StreamTime * Fps

\* C29: shutdown liveness: once the streaming flag is_streaming has been
\* cleared and the frame budget (i > stream_time * fps) is used up, the
\* render thread eventually leaves its loop, releases the scratch buffers
\* and returns, even if the acquisition thread posts no further "frame
\* ready" signal.
C29_RenderThreadReturns ==
  (ShutdownRequested /\ Running) ~> (render_pc \in {"done", "crashed"})

\* a shutdown after which the render thread released the buffers and returned
C29_Witness ==
  /\ ShutdownRequested
  /\ render_pc = "done"
  /\ last_call.op = "release"

---------------------------------------------------------------------------
(* Orchestrator properties *)

ScratchBuffers == {"image_tmp_frame1", "image_tmp_frame2"}

\* the stages of the last frame that read and write one scratch buffer
InPlaceStages ==
  {k \in 1..Len(frame_state.stages) :
     /\ frame_state.stages[k].src = frame_state.stages[k].dst
     /\ frame_state.stages[k].src \in ScratchBuffers}

\* C12: in every conversion and transform path (display_image_process,
\* color_image_frame, rotate_demo, mirror_flip_demo) no stage is invoked with
\* the same scratch buffer as both its source and its destination.
C12_NoInPlaceStage == InPlaceStages = {}

\* a frame whose stages ran and none of which was in place
C12_Witness ==
  /\ frame_state.mode = "normal"
  /\ Len(frame_state.stages) >= 3
  /\ InPlaceStages = {}

\* the stages of the last frame all belong to the path it took
OnePath ==
  /\ frame_state.mode \in {"none", "normal", "segmentation"}
  /\ \A k \in 1..Len(frame_state.stages) :
       (frame_state.mode = "segmentation")
         <=> (frame_state.stages[k].op = "segment_human_by_real_temperature")

\* C17 as stated: every frame is processed by exactly one of the two paths,
\* segmentation exactly when human_segmentation_enabled is set when
\* display_one_frame starts; the toggle changes only at the key poll of a
\* frame that has been presented.
C17_PathByToggle ==
  [][/\ OnePath'
     /\ frame_state'.mode =
          IF human_segmentation_enabled # 0 THEN "segmentation" ELSE "normal"
     /\ human_segmentation_enabled' # human_segmentation_enabled =>
          (sink_open' /\ shown'.mode = frame_state'.mode)]_vars

\* C17 amended: every frame is processed by exactly one of the two paths,
\* segmentation exactly when human_segmentation_enabled is set and
\* temp_frame is not NULL when display_one_frame starts (normal otherwise);
\* the toggle changes only at the key poll of a frame that has been
\* presented, so a change takes effect from the next frame.
C17_PathByToggleAndPlane ==
  [][/\ OnePath'
     /\ frame_state'.mode =
          IF human_segmentation_enabled # 0 /\ temp_frame # NULL
          THEN "segmentation" ELSE "normal"
     /\ human_segmentation_enabled' # human_segmentation_enabled =>
          (sink_open' /\ shown'.mode = frame_state'.mode)]_vars

\* a frame went down the segmentation path and the key poll that followed
\* its presentation switched the toggle off
C17_Witness ==
  /\ frame_state.mode = "segmentation"
  /\ frame_state.stages # <<>>
  /\ shown.mode = "segmentation"
  /\ human_segmentation_enabled = 0

OnlySegmentationRan ==
  /\ \A k \in 1..Len(frame_state'.stages) :
       frame_state'.stages[k].op = "segment_human_by_real_temperature"
  /\ image_info'.byte_size = image_info.byte_size
  /\ shown'.width = temp_info.width
  /\ shown'.height = temp_info.height

\* C18 as stated: when the segmentation toggle is enabled, display_one_frame
\* runs only segment_human_by_real_temperature: display_image_process,
\* mirror_flip_demo and rotate_demo are not run, image_info.byte_size is
\* left unchanged and the sink is given temp_info's width / height.
C18_ToggleBypasses ==
  [][human_segmentation_enabled # 0 => OnlySegmentationRan]_vars

\* C18 amended: when the segmentation toggle is enabled and temp_frame is
\* not NULL, display_one_frame runs only segment_human_by_real_temperature:
\* display_image_process, mirror_flip_demo and rotate_demo are not run,
\* image_info.byte_size is left unchanged and the sink is given temp_info's
\* width / height.
C18_ToggleAndPlaneBypass ==
  [][(human_segmentation_enabled # 0 /\ temp_frame # NULL) =>
       OnlySegmentationRan]_vars

\* a segmented frame was presented with the temperature plane's size, which
\* differs from the image size, after a converted frame had set byte_size
C18_Witness ==
  /\ shown.mode = "segmentation"
  /\ frame_state.stages # <<>>
  /\ shown.width = temp_info.width
  /\ temp_info.width # image_info.width
  /\ image_info.byte_size > 0

RotateOps == {"rotate_left_90", "rotate_right_90", "rotate_180"}

\* C20: in normal mode the width / height handed to the presentation sink
\* are (image_info.height, image_info.width) exactly when rotate_side is
\* LEFT_90D or RIGHT_90D and (image_info.width, image_info.height)
\* otherwise; rotate_demo is given the pre-rotation width / height, and
\* image_info.width / height are never modified by display_one_frame.
C20_SinkSizeFollowsRotation ==
  [][/\ shown'.mode = "normal" =>
          /\ <<shown'.width, shown'.height>> =
               IF image_info.rotate_side \in {"LEFT_90D", "RIGHT_90D"}
               THEN <<image_info.height, image_info.width>>
               ELSE <<image_info.width, image_info.height>>
          /\ \A k \in 1..Len(frame_state'.stages) :
               frame_state'.stages[k].op \in RotateOps =>
                 frame_state'.stages[k].res = <<image_info.width, image_info.height>>
          /\ (image_info.rotate_side # "NO_ROTATE") =>
               \E k \in 1..Len(frame_state'.stages) :
                 frame_state'.stages[k].op \in RotateOps
     /\ image_info'.width = image_info.width
     /\ image_info'.height = image_info.height]_vars

\* a frame wider than high was rotated by 90 degrees and presented
C20_Witness ==
  /\ shown.mode = "normal"
  /\ image_info.rotate_side = "RIGHT_90D"
  /\ image_info.width > image_info.height
  /\ shown.width = image_info.height
  /\ shown.height = image_info.width
  /\ \E k \in 1..Len(frame_state.stages) :
       /\ frame_state.stages[k].op = "rotate_right_90"
       /\ frame_state.stages[k].res = <<image_info.width, image_info.height>>

\* the pseudo-colour stages of the last frame
PseudoColourStages ==
  {k \in 1..Len(frame_state.stages) :
     frame_state.stages[k].op = "y14_map_to_yuyv_pseudocolor"}

\* C25: color_image_frame uses the BGR table variant (IRPROC_COLOR_MODE_6)
\* exactly on the path whose final output is BGR-ordered and the other
\* variant (IRPROC_COLOR_MODE_3) on the RGB888 and YUV422 paths; the
\* segmentation stage always uses the BGR variant.
C25_TableFollowsByteOrder ==
  /\ \A k \in PseudoColourStages :
       /\ frame_state.mode = "normal"
       /\ frame_state.stages[k].arg \in {"IRPROC_COLOR_MODE_3", "IRPROC_COLOR_MODE_6"}
       /\ (frame_state.stages[k].arg = "IRPROC_COLOR_MODE_6")
            <=> (content["image_tmp_frame2"].fmt = "BGR888")
       /\ image_info.output_format = "OUTPUT_FMT_BGR888" =>
            frame_state.stages[k].arg = "IRPROC_COLOR_MODE_6"
       /\ image_info.output_format \in {"OUTPUT_FMT_RGB888", "OUTPUT_FMT_YUV422"} =>
            /\ frame_state.stages[k].arg = "IRPROC_COLOR_MODE_3"
            /\ content["image_tmp_frame2"].fmt \in {"RGB888", "YUV422"}
  /\ \A k \in 1..Len(frame_state.stages) :
       frame_state.stages[k].op = "segment_human_by_real_temperature" =>
         /\ frame_state.stages[k].arg = "IRPROC_COLOR_MODE_6"
         /\ frame_state.stages[k].out = "BGR888"

\* a pseudo-colour frame with BGR888 output went through the BGR table
C25_Witness ==
  /\ frame_state.mode = "normal"
  /\ image_info.output_format = "OUTPUT_FMT_BGR888"
  /\ PseudoColourStages # {}
  /\ \A k \in PseudoColourStages : frame_state.stages[k].arg = "IRPROC_COLOR_MODE_6"
  /\ content["image_tmp_frame2"].fmt = "BGR888"

\* the stages of the last frame that ran the segmentation
SegmentationStages ==
  {k \in 1..Len(frame_state.stages) :
     frame_state.stages[k].op = "segment_human_by_real_temperature"}

\* C28: the segmentation output never overruns scratch buffer B: whenever
\* display_one_frame runs the segmentation path, the temp_info.width *
\* temp_info.height * 3 bytes written to image_tmp_frame2 do not exceed the
\* size the buffer was allocated with at display_init (image_info.width *
\* image_info.height * 3).
C28_SegmentationFitsBufferB ==
  \A k \in SegmentationStages :
    /\ frame_state.stages[k].dst = "image_tmp_frame2"
    /\ frame_state.stages[k].res = <<temp_info.width, temp_info.height>>
    /\ frame_state.stages[k].res[1] * frame_state.stages[k].res[2] * 3
         <= heap[image_tmp_frame2].size

\* a segmentation frame of a temperature plane no larger than the image
C28_Witness ==
  /\ SegmentationStages # {}
  /\ heap[image_tmp_frame2].size = last_call.pixel_size * 3
  /\ temp_info.width * temp_info.height <= image_info.width * image_info.height

\* the last frame went down the pseudo-colour path with RGB888 output
PseudoColourRgbFrame ==
  /\ frame_state.mode = "normal"
  /\ PseudoColourStages # {}
  /\ image_info.output_format = "OUTPUT_FMT_RGB888"

\* C30: on the pseudo-colour path with RGB888 output (display_image_process
\* calling color_image_frame with destination image_tmp_frame2), the YUV422
\* pseudo-colour intermediate is held in a buffer distinct from the
\* destination, so yuv422_to_rgb reads a complete, unmodified YUV422 image
\* and never reads and writes the same scratch buffer.
C30_IntermediateApartFromDestination ==
  PseudoColourRgbFrame =>
    \A k \in PseudoColourStages :
      /\ k < Len(frame_state.stages)
      /\ frame_state.stages[k + 1].op = "yuv422_to_rgb"
      /\ frame_state.stages[k + 1].src = frame_state.stages[k].dst
      /\ frame_state.stages[k + 1].dst = "image_tmp_frame2"
      /\ frame_state.stages[k].dst # frame_state.stages[k + 1].dst

\* a pseudo-colour frame with RGB888 output went through yuv422_to_rgb
C30_Witness ==
  /\ PseudoColourRgbFrame
  /\ \E k \in 1..Len(frame_state.stages) :
       /\ frame_state.stages[k].op = "yuv422_to_rgb"
       /\ frame_state.stages[k].dst = "image_tmp_frame2"
  /\ shown.byte_size = image_info.width * image_info.height * 3

---------------------------------------------------------------------------
(* Enhancement properties *)

Enhanced ==
  /\ plane_out.op = "enhance_image_frame"
  /\ plane_in.img_enhance_status = "IMG_ENHANCE_ON"

SrcValues == {plane_in.src_frame[k] : k \in 1..Len(plane_in.src_frame)}

\* C15: with enhancement enabled and max > min over the plane,
\* enhance_image_frame writes floor((v - min) * 16383 / (max - min)) for
\* every pixel v, and no product exceeds the range of int; the minimum maps
\* to 0, the maximum to 16383, every output lies in 0..16383.
C15_StretchExact ==
  (Enhanced /\ MaxOf(SrcValues) > MinOf(SrcValues)) =>
    LET lo == MinOf(SrcValues)
        hi == MaxOf(SrcValues)
    IN \A k \in 1..Len(plane_in.src_frame) :
         LET v == plane_in.src_frame[k]
         IN /\ (v - lo) * 16383 <= 2147483647
            /\ plane_out.dst_frame[k] = ((v - lo) * 16383) \div (hi - lo)
            /\ plane_out.dst_frame[k] \in 0..16383
            /\ v = lo => plane_out.dst_frame[k] = 0
            /\ v = hi => plane_out.dst_frame[k] = 16383

\* a plane spanning the whole 16-bit range was stretched
C15_Witness ==
  /\ Enhanced
  /\ MinOf(SrcValues) = 0
  /\ MaxOf(SrcValues) = 65535
  /\ Len(plane_in.src_frame) = MaxPix
  /\ \E k \in 1..Len(plane_in.src_frame) : plane_out.dst_frame[k] \in 1..16382

\* C16: with enhancement enabled on a flat frame (max = min across the
\* plane) enhance_image_frame is a no-op: every output pixel equals the
\* input pixel and no division is performed.
C16_FlatIsNoOp ==
  (Enhanced /\ MaxOf(SrcValues) = MinOf(SrcValues)) =>
    /\ plane_out.dst_frame = plane_in.src_frame
    /\ plane_out.divisions = 0

\* a flat plane of more than one pixel went through enhancement
C16_Witness ==
  /\ Enhanced
  /\ Len(plane_in.src_frame) > 1
  /\ MaxOf(SrcValues) = MinOf(SrcValues)
  /\ MinOf(SrcValues) = 16383

---------------------------------------------------------------------------
(* Segmentation properties *)

SegPixelIndexes == 1..Len(plane_in.y14_data)

\* the pixels whose resolved temperature lies in the band
InBandPixels == {k \in SegPixelIndexes : Human(plane_in.y14_data[k])}

Segmented ==
  /\ plane_out.op = "segment_human_by_real_temperature"
  /\ plane_out.dst_frame # <<>>

\* C13: after segment_human_by_real_temperature every pixel whose resolved
\* temperature lies in [28.0, 40.0] degrees Celsius has a masked intensity
\* in 1..16383 and is not forced to black, and every pixel outside the band
\* is exactly (0,0,0) in the output buffer.
C13_InBandColouredOthersBlack ==
  Segmented =>
    \A k \in SegPixelIndexes :
      IF k \in InBandPixels
      THEN /\ plane_out.masked_y14[k] \in 1..16383
           /\ plane_out.dst_frame[k].colour # "forced_black"
      ELSE plane_out.dst_frame[k] = [colour |-> "forced_black", index |-> 0]

\* a plane with in-band pixels of different intensities and an out-of-band
\* pixel was segmented
C13_Witness ==
  /\ Segmented
  /\ plane_out.max_y14 > plane_out.min_y14
  /\ InBandPixels # {}
  /\ InBandPixels # SegPixelIndexes

\* C14: when all in-band pixels share one raw intensity value
\* (max_y14 = min_y14), every in-band pixel's masked intensity is exactly
\* 8191 and no division by zero is performed.
C14_DegenerateIsMid ==
  /\ plane_out.op = "segment_human_by_real_temperature" =>
       0 \notin plane_out.divisors
  /\ (Segmented /\ InBandPixels # {} /\ plane_out.max_y14 = plane_out.min_y14) =>
       /\ \A k \in InBandPixels : plane_out.masked_y14[k] = 8191
       /\ plane_out.divisors = {-1}

\* several in-band pixels, all of one intensity
C14_Witness ==
  /\ Segmented
  /\ Cardinality(InBandPixels) > 1
  /\ plane_out.max_y14 = plane_out.min_y14
  /\ \A k \in InBandPixels : plane_out.masked_y14[k] = 8191

\* the pixels whose lookup failed
FailedPixels == {k \in SegPixelIndexes : ~plane_in.y14_data[k].ok}

\* the plane with every failed lookup replaced by a successful one that
\* reports a temperature below the band
AsOutOfBand ==
  [k \in SegPixelIndexes |->
     IF k \in FailedPixels
     THEN [y14 |-> plane_in.y14_data[k].y14, ok |-> TRUE, temp_raw |-> 19273]
     ELSE plane_in.y14_data[k]]

\* C26: a per-point temperature lookup failure never aborts segmentation: a
\* pixel whose lookup fails is excluded from the in-band count and from the
\* in-band min/max, gets masked intensity 0 and output (0,0,0), and every
\* other pixel is processed exactly as if the failed pixel were out-of-band.
C26_FailedLookupIsBackground ==
  /\ (plane_out.op = "segment_human_by_real_temperature"
        /\ plane_out.masked_y14 # <<>>) =>
       /\ Len(plane_out.masked_y14) = Len(plane_in.y14_data)
       /\ plane_out.human_pixel_count = Cardinality(InBandPixels)
       /\ InBandPixels \cap FailedPixels = {}
       /\ plane_out.min_y14 =
            MinOf({plane_in.y14_data[k].y14 : k \in InBandPixels} \cup {65535})
       /\ plane_out.max_y14 =
            MaxOf({plane_in.y14_data[k].y14 : k \in InBandPixels} \cup {0})
       /\ \A k \in FailedPixels : plane_out.masked_y14[k] = 0
  /\ Segmented =>
       /\ \A k \in FailedPixels :
            plane_out.dst_frame[k] = [colour |-> "forced_black", index |-> 0]
       /\ plane_out = segment_human_data(AsOutOfBand, "none")

\* a plane with a failed lookup that left an in-band code, beside in-band
\* pixels, was segmented to the end
C26_Witness ==
  /\ Segmented
  /\ \E k \in FailedPixels : InBand(plane_in.y14_data[k].temp_raw)
  /\ InBandPixels # {}
  /\ plane_out.max_y14 > plane_out.min_y14

---------------------------------------------------------------------------
(* Mirror / flip properties *)

\* C19: for STATUS_MIRROR_FLIP, mirror_flip_demo leaves in the frame buffer
\* exactly flip(mirror(original)): mirror runs once on the original frame,
\* flip runs once on the mirrored result, in that order, and the result ends
\* in the frame's own buffer.
C19_MirrorThenFlip ==
  (plane_out.op = "mirror_flip_demo"
     /\ plane_in.mirror_flip_status = "STATUS_MIRROR_FLIP") =>
    LET w == plane_in.width
        h == plane_in.height
    IN /\ Len(plane_out.stages) = 2
       /\ plane_out.stages[1].op = "mirror"
       /\ plane_out.stages[1].src = "image_tmp_frame2"
       /\ plane_out.stages[2].op = "flip"
       /\ plane_out.stages[2].src = plane_out.stages[1].dst
       /\ plane_out.stages[2].dst = "image_tmp_frame2"
       /\ \A r \in 1..h, c \in 1..w :
            plane_out.frame[((r - 1) * w) + c]
              = plane_in.frame[((h - r) * w) + (w + 1 - c)]

\* a frame of two rows and two columns, different in both directions, went
\* through mirror and flip
C19_Witness ==
  /\ plane_out.op = "mirror_flip_demo"
  /\ plane_in.mirror_flip_status = "STATUS_MIRROR_FLIP"
  /\ plane_in.width = MaxDim /\ plane_in.height = MaxDim
  /\ plane_in.frame[1] # plane_in.frame[MaxDim * MaxDim]
  /\ plane_out.frame # plane_in.frame

---------------------------------------------------------------------------
(* Frame-rate properties *)

\* C21: the frame-rate computation in display_one_frame never divides by
\* zero: when the elapsed time between the current and the previous
\* timestamp is zero or negative, the rate is treated as unavailable instead
\* of being computed as 1000000 / elapsed.
C21_NoRateWithoutElapsedTime ==
  rate.op = "computed" =>
    /\ rate.divisor # 0
    /\ rate.elapsed <= 0 => ~rate.available

\* two frames one second apart: a rate of 1.00 was computed
C21_Witness ==
  /\ rate.op = "computed"
  /\ rate.elapsed = 1000000
  /\ rate.frame = 100
  /\ last_time.tv_sec > 0

---------------------------------------------------------------------------
(* simple_camera properties *)

\* C22: simple_camera_close stops a stream that is still running before it
\* closes the device and frees the frame buffers: after close returns no
\* acquisition thread is running and none ever accesses the freed buffers.
C22_CloseStopsStream ==
  /\ (camera.call = "close" /\ camera.ret = 0) => camera.stream = "off"
  /\ ~camera.stale_access

\* a camera was opened, streamed a frame and was closed
C22_Witness ==
  /\ camera.call = "close" /\ camera.ret = 0
  /\ camera.frames_read > 0
  /\ camera.buffers = "freed"
  /\ camera.device = "closed"

\* C23: simple_camera_get_frame is blocking: it returns 0 only after a new
\* frame has been read from the camera and stored in the internal buffers,
\* and returns a negative value when no frame arrives or the handle is
\* invalid.
C23_GetFrameBlocks ==
  camera.call = "get_frame" =>
    /\ camera.ret = 0 => camera.fetched
    /\ ~camera.fetched => camera.ret < 0

\* get_frame was called on an open, streaming camera
C23_Witness ==
  /\ camera.call = "get_frame"
  /\ camera.handle = "live"
  /\ camera.device = "open"
  /\ camera.stream = "on"

\* C24: simple_camera_destroy releases the handle and every resource
\* acquired through it: after destroy, no frame buffer allocated by
\* simple_camera_open remains allocated, whether or not simple_camera_close
\* was called before.
C24_DestroyReleasesAll ==
  camera.handle = "freed" => camera.buffers # "allocated"

\* a camera was opened, closed and destroyed
C24_Witness ==
  /\ camera.handle = "freed"
  /\ camera.call = "destroy"
  /\ camera.buffers = "freed"
  /\ camera.device = "closed"

====
